---- MODULE Spec2Model ----
(***************************************************************************)
(* latex-diff-git: main.py.  One run of the command-line program, from     *)
(* the parsed arguments to the process exit.  The state is the working     *)
(* filesystem, the two output streams, the locals of __main__ and the      *)
(* position of the run in __main__.  Every external call (which, git,      *)
(* latexdiff, open/write, os.remove) is one step whose outcome the         *)
(* environment chooses.                                                    *)
(***************************************************************************)
EXTENDS Integers, Sequences, FiniteSets, TLC

\* Texts (file contents, tool output, error texts) are 1..MaxText.
MaxText == 2

Texts == 1..MaxText

\* os.path.exists(p) is False: no file at p.
Absent == -1

\* A file opened with 'w' whose write then failed: truncated, nothing written.
Empty == 0

\* A path is its directory, the base name and the extension (os.path.splitext).
Path(dir, base, ext) == [dir |-> dir, base |-> base, ext |-> ext]

\* The working directory of the process and another directory of the repository.
Cwd == "."
Sub == "chapters"

old_file_path == Path(Cwd, "old_version", ".tex")
new_file_path == Path(Cwd, "new_version", ".tex")

TempFiles == {old_file_path, new_file_path}

\* args.output when -o is absent (None) or empty: `not args.output` is true.
NoOutput == Path("", "", "")

\* The values of -i the model runs with.
Inputs == {Path(Cwd, "doc", ".tex"), Path(Sub, "doc", ".tex")}

\* The values of -o the model runs with: none, a name of its own, and the two
\* names the program also uses for its temporary files.
Outputs == {NoOutput, Path(Cwd, "out", ".tex"), old_file_path, new_file_path}

\* os.path.join(input_dir, f"{base}-diff{ext}")
DefaultOutput(input) == Path(input.dir, input.base \o "-diff", input.ext)

Paths == TempFiles \cup Inputs \cup (Outputs \ {NoOutput})
         \cup {DefaultOutput(i) : i \in Inputs}

\* subprocess.run(['latexdiff', ...]) before it has run.
NoResult == [returncode |-> -1, stdout |-> 0, stderr |-> 0]

VARIABLES
    argv,              \* the command line: -i and -o as given
    args,              \* argparse namespace; args.output is assigned at line 175
    fs0,               \* the filesystem when the process started
    fs,                \* the filesystem: path -> content, or Absent
    pc,                \* the statement of __main__ the run is at
    old_file_content,  \* git show <old>:<file>
    new_file_content,  \* git show <new>:<file>
    result,            \* the CompletedProcess of latexdiff
    pending,           \* 1 when sys.exit(1) or an exception is propagating through finally
    exitStatus,        \* -1 while running, then the process exit status
    stdout,            \* lines printed on sys.stdout
    stderr,            \* lines printed on sys.stderr
    opened,            \* paths this run opened for writing (created or truncated)
    log                \* the external calls made, in order, each with its outcome

vars == <<argv, args, fs0, fs, pc, old_file_content, new_file_content, result,
          pending, exitStatus, stdout, stderr, opened, log>>

locals == <<old_file_content, new_file_content, result>>

\* print(msg) with the text interpolated into it (0: none).
Line(msg, text) == [msg |-> msg, text |-> text]

\* One external call: which step, whether it succeeded, whether it failed by
\* raising rather than by a non-zero return code, and the error text it gave.
Call(step, ok, raised, text) ==
    [step |-> step, ok |-> ok, raised |-> raised, text |-> text]

\* The paths a run with this command line can read or write; the model leaves
\* the rest of the filesystem empty.
Reach(cmd) ==
    TempFiles \cup {cmd.input, DefaultOutput(cmd.input)} \cup (Outputs \ {NoOutput})

Init ==
    /\ argv \in [input : Inputs, output : Outputs]
    /\ args = argv
    /\ fs0 \in [Paths -> {Absent, 1}]
    /\ \A p \in Paths \ Reach(argv) : fs0[p] = Absent
    /\ fs = fs0
    /\ pc = "check_latexdiff"
    /\ old_file_content = 0
    /\ new_file_content = 0
    /\ result = NoResult
    /\ pending = 0
    /\ exitStatus = -1
    /\ stdout = <<>>
    /\ stderr = <<>>
    /\ opened = {}
    /\ log = <<>>

\* sys.exit(1) outside the try block, or an uncaught exception there: the
\* process ends with status 1 at once.
Exit1 ==
    /\ pc' = "done"
    /\ exitStatus' = 1

\* sys.exit(1) or a caught exception inside the try block: the finally block
\* runs, then the process ends with status 1.
Leave1 ==
    /\ pc' = "cleanup_old"
    /\ pending' = 1

\* Mutant of CheckCommand: the diagnostic is printed but sys.exit(1) is
\* missing, so the run goes on to the next step.
CheckCommand_NoExit(here, command, notFound, next) ==
    /\ pc = here
    /\ \E how \in {"found", "not_found", "raise"} :
         /\ log' = Append(log, Call(here, how = "found", how = "raise", 0))
         /\ pc' = next
         /\ stderr' = IF how = "found" THEN stderr
                      ELSE Append(stderr, Line(notFound, 0))
    /\ UNCHANGED <<argv, args, fs0, fs, locals, pending, exitStatus, stdout, opened>>

\* check_command_exists(command) and the test on it in __main__.
CheckCommand(here, command, notFound, next) ==
    /\ pc = here
    /\ \E how \in {"found", "not_found", "raise"} :
         /\ log' = Append(log, Call(here, how = "found", how = "raise", 0))
         /\ IF how = "found"
            THEN /\ pc' = next
                 /\ UNCHANGED <<exitStatus, stderr>>
            ELSE /\ stderr' = stderr
                      \o (IF how = "raise"
                          THEN <<Line("Error checking command " \o command, 1)>>
                          ELSE <<>>)
                      \o <<Line(notFound, 0)>>
                 /\ Exit1
    /\ UNCHANGED <<argv, args, fs0, fs, locals, pending, stdout, opened>>

CheckLatexdiff ==
    CheckCommand("check_latexdiff", "latexdiff",
                 "Error: latexdiff command not found.", "check_git")

CheckGit ==
    CheckCommand("check_git", "git", "Error: git command not found.", "repo_root")

\* get_repo_root_from_path(args.input): CalledProcessError is reported and
\* exits; any other exception (the directory does not exist) is uncaught.
GetRepoRoot ==
    /\ pc = "repo_root"
    /\ \E how \in {"ok", "CalledProcessError", "raise"} :
         /\ log' = Append(log, Call("repo_root", how = "ok", how = "raise", 0))
         /\ IF how = "ok"
            THEN /\ pc' = "isfile"
                 /\ UNCHANGED <<exitStatus, stderr>>
            ELSE /\ stderr' = Append(stderr,
                       IF how = "raise"
                       THEN Line("Traceback", 1)
                       ELSE Line("Error: Could not determine repository root", 0))
                 /\ Exit1
    /\ UNCHANGED <<argv, args, fs0, fs, locals, pending, stdout, opened>>

\* Mutant of ValidatePath: the missing file is reported but the run goes on.
ValidatePath_NoExit ==
    /\ pc = "isfile"
    /\ log' = Append(log, Call("isfile", fs[args.input] # Absent, FALSE, 0))
    /\ pc' = "info_old"
    /\ stderr' = IF fs[args.input] # Absent THEN stderr
                 ELSE Append(stderr,
                        Line("Error: The file does not exist in the repository", 0))
    /\ UNCHANGED <<argv, args, fs0, fs, locals, pending, exitStatus, stdout, opened>>

\* os.path.isfile(file_full_path): file_full_path is the input path again,
\* joined from the repository root and the path relative to it.
ValidatePath ==
    /\ pc = "isfile"
    /\ log' = Append(log, Call("isfile", fs[args.input] # Absent, FALSE, 0))
    /\ IF fs[args.input] # Absent
       THEN /\ pc' = "info_old"
            /\ UNCHANGED <<exitStatus, stderr>>
       ELSE /\ stderr' = Append(stderr,
                  Line("Error: The file does not exist in the repository", 0))
            /\ Exit1
    /\ UNCHANGED <<argv, args, fs0, fs, locals, pending, stdout, opened>>

\* The three print calls after both commit titles were looked up.
Header ==
    <<Line("Latex diff between:", 0), Line("Old Version -> Commit", 0),
      Line("New Version -> Commit", 0)>>

\* get_commit_info(commit_id, repo_root_abs): CalledProcessError is a warning,
\* any other exception is uncaught.  After the second lookup the header is
\* printed.
GetCommitInfo(here, next, printed) ==
    /\ pc = here
    /\ \E how \in {"ok", "CalledProcessError", "raise"} :
         /\ log' = Append(log, Call(here, how = "ok", how = "raise", 0))
         /\ IF how = "raise"
            THEN /\ stderr' = Append(stderr, Line("Traceback", 1))
                 /\ Exit1
                 /\ UNCHANGED stdout
            ELSE /\ stderr' = (IF how = "ok" THEN stderr
                               ELSE Append(stderr,
                                      Line("Warning: Could not retrieve commit title", 0)))
                 /\ stdout' = stdout \o printed
                 /\ pc' = next
                 /\ UNCHANGED exitStatus
    /\ UNCHANGED <<argv, args, fs0, fs, locals, pending, opened>>

GetCommitInfoOld == GetCommitInfo("info_old", "info_new", <<>>)

GetCommitInfoNew == GetCommitInfo("info_new", "fetch_old", Header)

\* Mutant of GetFileFromCommit: a failed git show is reported and the call
\* returns, so the run goes on with whatever content it has.
GetFileFromCommit_Degraded(here, next) ==
    /\ pc = here
    /\ pc' = next
    /\ \/ /\ log' = Append(log, Call(here, TRUE, FALSE, 0))
          /\ UNCHANGED stderr
       \/ \E err \in Texts :
            /\ log' = Append(log, Call(here, FALSE, FALSE, err))
            /\ stderr' = stderr \o
                   <<Line("Error: Could not retrieve file from commit", 0),
                     Line("result.stderr", err)>>
    /\ UNCHANGED <<argv, args, fs0, fs, result, pending, exitStatus, stdout, opened>>

\* get_file_from_commit(commit_id, relative_input, repo_root_abs): returns on
\* return code 0; otherwise the tool's stderr is printed and the process
\* exits; an exception of subprocess.run is printed and the process exits.
GetFileFromCommit(here, next) ==
    /\ pc = here
    /\ \/ /\ log' = Append(log, Call(here, TRUE, FALSE, 0))
          /\ pc' = next
          /\ UNCHANGED <<exitStatus, stderr>>
       \/ /\ \E err \in Texts :
               /\ log' = Append(log, Call(here, FALSE, FALSE, err))
               /\ stderr' = stderr \o
                      <<Line("Error: Could not retrieve file from commit", 0),
                        Line("result.stderr", err)>>
          /\ Exit1
       \/ /\ \E err \in Texts :
               /\ log' = Append(log, Call(here, FALSE, TRUE, err))
               /\ stderr' = Append(stderr,
                      Line("Error retrieving file from commit", err))
          /\ Exit1
    /\ UNCHANGED <<argv, args, fs0, fs, result, pending, stdout, opened>>

\* Mutant of FetchOld: the fetched content is written to old_version.tex as
\* soon as it is fetched, before the new revision is fetched.
FetchOld_Stages ==
    /\ pc = "fetch_old"
    /\ pc' = "fetch_new"
    /\ log' = Append(log, Call("fetch_old", TRUE, FALSE, 0))
    /\ \E content \in Texts :
         /\ old_file_content' = content
         /\ fs' = [fs EXCEPT ![old_file_path] = content]
    /\ opened' = opened \cup {old_file_path}
    /\ UNCHANGED <<argv, args, fs0, new_file_content, result, pending,
                   exitStatus, stdout, stderr>>

\* old_file_content = get_file_from_commit(args.old_commit_id, ...)
FetchOld ==
    /\ GetFileFromCommit("fetch_old", "fetch_new")
    /\ IF pc' = "fetch_new"
       THEN old_file_content' \in Texts
       ELSE UNCHANGED old_file_content
    /\ UNCHANGED new_file_content

\* new_file_content = get_file_from_commit(args.new_commit_id, ...)
FetchNew ==
    /\ GetFileFromCommit("fetch_new", "write_old")
    /\ IF pc' = "write_old"
       THEN new_file_content' \in Texts
       ELSE UNCHANGED new_file_content
    /\ UNCHANGED old_file_content

\* with open(path, 'w') as f: f.write(content).  The open may fail (nothing
\* changes), or the write may fail after the file was created or truncated.
WriteOutcomes == {"ok", "open_raises", "write_raises"}

WriteFile(path, content, how) ==
    /\ fs' = CASE how = "ok" -> [fs EXCEPT ![path] = content]
               [] how = "write_raises" -> [fs EXCEPT ![path] = Empty]
               [] OTHER -> fs
    /\ opened' = IF how = "open_raises" THEN opened ELSE opened \cup {path}

\* The except clause: print the exception, sys.exit(1), then finally.
Caught ==
    /\ stderr' = Append(stderr, Line("Error during processing", 1))
    /\ Leave1

\* Staging of one temporary file inside the try block.
Stage(here, next, path, content, printed) ==
    /\ pc = here
    /\ \E how \in WriteOutcomes :
         /\ WriteFile(path, content, how)
         /\ log' = Append(log, Call(here, how = "ok", how # "ok", 0))
         /\ IF how = "ok"
            THEN /\ pc' = next
                 /\ stdout' = stdout \o printed
                 /\ UNCHANGED <<pending, stderr>>
            ELSE /\ Caught
                 /\ UNCHANGED stdout
    /\ UNCHANGED <<argv, args, fs0, locals, exitStatus>>

WriteOld ==
    Stage("write_old", "write_new", old_file_path, old_file_content, <<>>)

WriteNew ==
    Stage("write_new", "latexdiff", new_file_path, new_file_content,
          <<Line("Applying latex diff...", 0)>>)

\* Mutant of RunLatexdiff: the return code is not tested, so the captured
\* output is delivered whatever latexdiff returned.
RunLatexdiff_IgnoresReturncode ==
    /\ pc = "latexdiff"
    /\ \E rc \in {0, 1}, out \in Texts :
         /\ result' = [returncode |-> rc, stdout |-> out, stderr |-> rc]
         /\ log' = Append(log, Call("latexdiff", rc = 0, FALSE, rc))
    /\ pc' = "deliver"
    /\ UNCHANGED <<argv, args, fs0, fs, old_file_content, new_file_content,
                   pending, exitStatus, stdout, stderr, opened>>

\* subprocess.run(['latexdiff', old_file_path, new_file_path]) and the test of
\* its return code.  A failing latexdiff may have written part of its output.
RunLatexdiff ==
    /\ pc = "latexdiff"
    /\ \/ \E out \in Texts :
            /\ result' = [returncode |-> 0, stdout |-> out, stderr |-> 0]
            /\ log' = Append(log, Call("latexdiff", TRUE, FALSE, 0))
            /\ pc' = "deliver"
            /\ UNCHANGED <<pending, stderr>>
       \/ \E out \in Texts :
            /\ result' = [returncode |-> 1, stdout |-> out, stderr |-> 1]
            /\ log' = Append(log, Call("latexdiff", FALSE, FALSE, 1))
            /\ stderr' = stderr \o <<Line("Error: latexdiff failed.", 0),
                                     Line("result.stderr", 1)>>
            /\ Leave1
       \/ /\ log' = Append(log, Call("latexdiff", FALSE, TRUE, 1))
          /\ Caught
          /\ UNCHANGED result
    /\ UNCHANGED <<argv, args, fs0, fs, old_file_content, new_file_content,
                   exitStatus, stdout, opened>>

\* Lines 171-182: the default output path, the write of the diff, the two
\* closing prints.
Deliver ==
    /\ pc = "deliver"
    /\ args' = IF args.output = NoOutput
               THEN [args EXCEPT !.output = DefaultOutput(args.input)]
               ELSE args
    /\ \E how \in WriteOutcomes :
         /\ WriteFile(args'.output, result.stdout, how)
         /\ log' = Append(log, Call("deliver", how = "ok", how # "ok", 0))
         /\ IF how = "ok"
            THEN /\ stdout' = stdout \o <<Line("Done.", 0),
                                          Line("Output is available at", 0)>>
                 /\ pc' = "cleanup_old"
                 /\ UNCHANGED <<pending, stderr>>
            ELSE /\ Caught
                 /\ UNCHANGED stdout
    /\ UNCHANGED <<argv, fs0, locals, exitStatus>>

\* Mutant of Remove: an exception of os.remove is re-raised after the
\* warning, so the process ends with status 1.
Remove_Escalates(here, temp_file) ==
    /\ pc = here
    /\ IF fs[temp_file] = Absent
       THEN /\ log' = Append(log, Call(here, TRUE, FALSE, 0))
            /\ UNCHANGED <<fs, stderr, pending>>
       ELSE \/ /\ fs' = [fs EXCEPT ![temp_file] = Absent]
               /\ log' = Append(log, Call(here, TRUE, FALSE, 1))
               /\ UNCHANGED <<stderr, pending>>
            \/ /\ log' = Append(log, Call(here, FALSE, TRUE, 1))
               /\ stderr' = Append(stderr,
                      Line("Warning: Could not remove temporary file", 1))
               /\ pending' = 1
               /\ UNCHANGED fs
    /\ UNCHANGED <<argv, args, fs0, locals, stdout, opened>>

\* One turn of the loop of the finally block: remove temp_file if it exists;
\* an exception of os.remove is printed as a warning.
Remove(here, temp_file) ==
    /\ pc = here
    /\ IF fs[temp_file] = Absent
       THEN /\ log' = Append(log, Call(here, TRUE, FALSE, 0))
            /\ UNCHANGED <<fs, stderr>>
       ELSE \/ /\ fs' = [fs EXCEPT ![temp_file] = Absent]
               /\ log' = Append(log, Call(here, TRUE, FALSE, 1))
               /\ UNCHANGED stderr
            \/ /\ log' = Append(log, Call(here, FALSE, TRUE, 1))
               /\ stderr' = Append(stderr,
                      Line("Warning: Could not remove temporary file", 1))
               /\ UNCHANGED fs
    /\ UNCHANGED <<argv, args, fs0, locals, pending, stdout, opened>>

\* Mutant of CleanupNew: the loop of the finally block covers old_version.tex
\* only, new_version.tex is never removed.
CleanupNew_Skips ==
    /\ pc = "cleanup_new"
    /\ log' = Append(log, Call("cleanup_new", TRUE, FALSE, 0))
    /\ pc' = "done"
    /\ exitStatus' = pending
    /\ UNCHANGED <<argv, args, fs0, fs, locals, pending, stdout, stderr, opened>>

CleanupOld ==
    /\ Remove("cleanup_old", old_file_path)
    /\ pc' = "cleanup_new"
    /\ UNCHANGED exitStatus

\* After the last turn the process ends: with status 1 when sys.exit(1) is
\* propagating, with status 0 when the try block ran to its end.
CleanupNew ==
    /\ Remove("cleanup_new", new_file_path)
    /\ pc' = "done"
    /\ exitStatus' = pending

Next ==
    \/ CheckLatexdiff
    \/ CheckGit
    \/ GetRepoRoot
    \/ ValidatePath
    \/ GetCommitInfoOld
    \/ GetCommitInfoNew
    \/ FetchOld
    \/ FetchNew
    \/ WriteOld
    \/ WriteNew
    \/ RunLatexdiff
    \/ Deliver
    \/ CleanupOld
    \/ CleanupNew

Spec == Init /\ [][Next]_vars

(***************************************************************************)
(* Reading the run back from the log.                                      *)
(***************************************************************************)
Done == pc = "done"

\* The step was attempted.
Did(step) == \E i \in 1..Len(log) : log[i].step = step

\* The step was attempted and succeeded.
Ok(step) == \E i \in 1..Len(log) : log[i].step = step /\ log[i].ok

\* The step was attempted and failed.
Failed(step) == \E i \in 1..Len(log) : log[i].step = step /\ ~log[i].ok

Printed(stream, line) == \E i \in 1..Len(stream) : stream[i] = line

\* The steps whose failure ends the run, in the order of __main__.
Pipeline ==
    <<"check_latexdiff", "check_git", "repo_root", "isfile", "fetch_old",
      "fetch_new", "write_old", "write_new", "latexdiff", "deliver">>

PipelineSteps == {Pipeline[i] : i \in 1..Len(Pipeline)}

\* Where the diff is to be delivered: -o when given, else the sibling of the
\* input file named <base>-diff<ext>.
Dest ==
    IF argv.output # NoOutput
    THEN argv.output
    ELSE Path(argv.input.dir, argv.input.base \o "-diff", argv.input.ext)

\* The step of the finally block that removes the temporary file.
RemovalOf(t) == IF t = old_file_path THEN "cleanup_old" ELSE "cleanup_new"

(***************************************************************************)
(* C1                                                                      *)
(***************************************************************************)
\* C1 as stated: once the process has exited, neither old_version.tex nor
\* new_version.tex exists in the working directory, whatever step failed and
\* whatever the directory held before the run.
C1_NoTempFileAfterExit ==
    Done => \A t \in TempFiles : fs[t] = Absent

\* C1 as amended: once the process has exited, a temporary-file name that
\* still exists is either one whose removal failed in the finally block, or
\* one that existed before a run that ended before staging and was left as
\* it was.
C1_TempFileLeftOnlyIfRemovalFailedOrUntouched ==
    Done =>
      \A t \in TempFiles :
        fs[t] # Absent =>
          \/ Failed(RemovalOf(t))
          \/ ~Did("write_old") /\ fs0[t] # Absent /\ fs[t] = fs0[t]

\* A run that found both names in the directory, staged over them, failed at
\* latexdiff and removed both.
C1_Witness ==
    /\ Done
    /\ \A t \in TempFiles : fs0[t] # Absent /\ fs[t] = Absent /\ t \in opened
    /\ Failed("latexdiff")

(***************************************************************************)
(* C2                                                                      *)
(***************************************************************************)
PreflightMessage(step) ==
    IF step = "check_latexdiff"
    THEN Line("Error: latexdiff command not found.", 0)
    ELSE Line("Error: git command not found.", 0)

\* C2: when latexdiff or git is not reachable, the diagnostic naming the
\* tool is printed, the exit status is 1, and the failed check is the last
\* thing the run did: no repository query, no commit lookup, no fetch, no
\* file written or removed.
C2_MissingToolStopsTheRun ==
    \A i \in 1..Len(log) :
      (log[i].step \in {"check_latexdiff", "check_git"} /\ ~log[i].ok) =>
        /\ Len(log) = i
        /\ Done
        /\ exitStatus = 1
        /\ Printed(stderr, PreflightMessage(log[i].step))
        /\ fs = fs0
        /\ opened = {}
        /\ stdout = <<>>

\* git is missing while latexdiff is there.
C2_Witness ==
    /\ Done
    /\ Ok("check_latexdiff")
    /\ Failed("check_git")

(***************************************************************************)
(* C3                                                                      *)
(***************************************************************************)
\* C3: the exit status is 0 exactly when every step of the pipeline
\* succeeded, and 1 otherwise.
C3_ExitZeroIffAllStepsSucceeded ==
    Done =>
      /\ exitStatus \in {0, 1}
      /\ exitStatus = 0 <=> \A s \in PipelineSteps : Ok(s)

\* A run in which latexdiff returned non-zero, ended with status 1.
C3_Witness ==
    /\ Done
    /\ exitStatus = 1
    /\ Failed("latexdiff")
    /\ result.returncode = 1

(***************************************************************************)
(* C4                                                                      *)
(***************************************************************************)
\* C4: after a run that exits with status 0 the destination file exists and
\* holds exactly the captured standard output of latexdiff, for every value
\* of the output path.
C4_OutputHoldsTheDiff ==
    (Done /\ exitStatus = 0) => fs[Dest] = result.stdout

(***************************************************************************)
(* C5                                                                      *)
(***************************************************************************)
\* C5: when -o is given nothing is printed on standard output.
C5_NothingOnStdoutWithExplicitOutput ==
    argv.output # NoOutput => stdout = <<>>

(***************************************************************************)
(* C6                                                                      *)
(***************************************************************************)
\* C6: when the input file is missing or latexdiff fails, the exit status is
\* non-zero and the destination file is neither created nor written in the
\* run.
C6_NoOutputWhenFileMissingOrDiffFails ==
    (Done /\ (Failed("isfile") \/ Failed("latexdiff"))) =>
      /\ exitStatus = 1
      /\ Dest \notin opened
      /\ ~Did("deliver")

(***************************************************************************)
(* C7                                                                      *)
(***************************************************************************)
FetchSteps == {"fetch_old", "fetch_new"}

\* What C7 says of the run after a failed fetch, apart from the message.
NothingAfterFetch(i) ==
    /\ Len(log) = i
    /\ Done
    /\ exitStatus = 1
    /\ fs = fs0
    /\ opened = {}
    /\ result = NoResult

\* C7 as stated: after any failed fetch the error text of git is printed,
\* the exit status is non-zero, no temporary file is written, latexdiff is
\* not run and no output is written.
C7_FetchFailurePrintsToolError ==
    \A i \in 1..Len(log) :
      (log[i].step \in FetchSteps /\ ~log[i].ok) =>
        /\ Printed(stderr, Line("result.stderr", log[i].text))
        /\ NothingAfterFetch(i)

\* C7 as amended: after a failed fetch the run prints the error text of git
\* when git returned non-zero, and the text of the exception when the call
\* itself raised; either way the exit status is 1, no temporary file is
\* written, latexdiff is not run and no output is written.
C7_FetchFailureIsFatal ==
    \A i \in 1..Len(log) :
      (log[i].step \in FetchSteps /\ ~log[i].ok) =>
        /\ IF log[i].raised
           THEN Printed(stderr, Line("Error retrieving file from commit", log[i].text))
           ELSE Printed(stderr, Line("result.stderr", log[i].text))
        /\ NothingAfterFetch(i)

\* The old revision was fetched, then git returned non-zero for the new one.
C7_Witness ==
    /\ Done
    /\ Ok("fetch_old")
    /\ \E i \in 1..Len(log) :
         log[i].step = "fetch_new" /\ ~log[i].ok /\ ~log[i].raised

(***************************************************************************)
(* C8                                                                      *)
(***************************************************************************)
\* The place of every external call in __main__.
Order ==
    <<"check_latexdiff", "check_git", "repo_root", "isfile", "info_old",
      "info_new", "fetch_old", "fetch_new", "write_old", "write_new",
      "latexdiff", "deliver", "cleanup_old", "cleanup_new">>

CleanupSteps == {"cleanup_old", "cleanup_new"}

\* The steps inside the try block, whose failure the finally block follows.
TrySteps == {"write_old", "write_new", "latexdiff", "deliver"}

\* The step let the run go on: it succeeded, or it was a commit-title lookup
\* that only warned.
WentOn(e) ==
    \/ e.ok
    \/ e.step \in {"info_old", "info_new"} /\ ~e.raised

C9_CleanupFailureIsOnlyAWarning ==
    (Done /\ Did("cleanup_old")) =>
      /\ Did("cleanup_new")
      /\ exitStatus = (IF Ok("deliver") THEN 0 ELSE 1)
      /\ (Failed("cleanup_old") \/ Failed("cleanup_new"))
           <=> Printed(stderr, Line("Warning: Could not remove temporary file", 1))
      /\ \A i \in 1..Len(log) :
           (log[i].step \in {"cleanup_old", "cleanup_new"} /\ log[i].text = 0)
             => log[i].ok

\* The diff was delivered, old_version.tex could not be removed,
\* new_version.tex was.
C9_Witness ==
    /\ Done
    /\ exitStatus = 0
    /\ Failed("cleanup_old")
    /\ fs[old_file_path] # Absent
    /\ fs[new_file_path] = Absent

(***************************************************************************)
(* C10                                                                     *)
(***************************************************************************)
\* C10: as long as the run has not begun staging, and so in every run that
\* fails before it, the filesystem is as it was when the process started: no
\* file was created, overwritten or removed.
C10_NoFileTouchedBeforeStaging ==
    ~Did("write_old") =>
      /\ fs = fs0
      /\ opened = {}
      /\ ~Did("cleanup_old")
      /\ ~Did("cleanup_new")

\* A run that failed at the fetch of the new revision and left both names,
\* which were in the directory before, as they were.
C10_Witness ==
    /\ Done
    /\ Failed("fetch_new")
    /\ \A t \in TempFiles : fs0[t] # Absent /\ fs[t] = fs0[t]

====
